---- MODULE Spec2Model ----
(***************************************************************************)
(* SmaStrategy (src/sma_strategy.py): a moving-average crossover strategy. *)
(* The host calls on_bar with the bar data of the subscribed symbol; the   *)
(* strategy recomputes the fast and the slow rolling mean of the closing   *)
(* prices, compares their last two values and calls context.buy or         *)
(* context.sell at most once.                                              *)
(*                                                                         *)
(* Closing prices are integers, and a rolling mean is kept as the exact    *)
(* fraction sum/window.  For such prices the sums are exact in binary      *)
(* floating point and the division is correctly rounded, so two means      *)
(* compare in pandas exactly as the fractions compare here.                *)
(***************************************************************************)
EXTENDS Integers, Sequences, FiniteSets

VARIABLES
    parameters,     \* self.parameters of the strategy instance
    series,         \* the host's closing-price history of the symbol so far
    position,       \* the host's position in the symbol (context.get_position)
    bar_dict,       \* the bar data the host handed to the last on_bar call
    seen_position,  \* the host's position when the last on_bar call was made
    decision,       \* the order the last on_bar call placed, if any
    raised,         \* whether the last on_bar call ended with an exception
    configured,     \* the parameters initialize() set (history variable)
    initial,        \* the host's position before the first bar (history variable)
    streamed,       \* every call so far delivered one new well-formed bar
    log,            \* the orders placed so far, each with the bar it was placed on
    memo            \* one earlier on_bar call, remembered with its outcome

vars ==
    << parameters, series, position, bar_dict, seen_position, decision, raised,
       configured, initial, streamed, log, memo >>

----------------------------------------------------------------------------
(* Bounds of the model *)

\* the longest closing-price history the host builds
MaxLen ==
    5

\* the longest history of a run in which an earlier call is remembered
MaxReplayLen ==
    4

\* the largest fast_period / slow_period a strategy instance is configured with
MaxPeriod ==
    3

\* the closing prices the host draws from
Prices ==
    {10, 12}

\* "trade_size": 100
TradeSize ==
    100

\* "symbol": "AAPL"
Symbol ==
    "AAPL"

\* positions the host may hold before the first bar: none at all, flat, short,
\* long by less than, exactly, and more than one trade
NoPosition ==
    [exists |-> FALSE, quantity |-> 0]

Holding(q) ==
    [exists |-> TRUE, quantity |-> q]

StartPositions ==
    {NoPosition} \cup {Holding(q) : q \in {-100, 0, 50, 100}}

----------------------------------------------------------------------------
(* Values *)

\* what pandas gives where the window is not yet full
NaN ==
    [nan |-> TRUE, num |-> 0, den |-> 1]

\* the mean num/den
Mean(n, d) ==
    [nan |-> FALSE, num |-> n, den |-> d]

\* pd.isna
isna(x) ==
    x.nan

\* a < b and a <= b on two means that are numbers
Lt(a, b) ==
    a.num * b.den < b.num * a.den

Le(a, b) ==
    a.num * b.den <= b.num * a.den

\* the outcome of a call that places no order
NoDecision ==
    [action |-> "NONE", symbol |-> "", quantity |-> 0]

\* context.buy(symbol, size) / context.sell(symbol, size)
Buy(symbol, size) ==
    [action |-> "BUY", symbol |-> symbol, quantity |-> size]

Sell(symbol, size) ==
    [action |-> "SELL", symbol |-> symbol, quantity |-> size]

----------------------------------------------------------------------------
(* The bar data of one call: bar_dict.get(symbol) *)

\* bar_dict has no entry for the symbol
Missing ==
    [present |-> FALSE, has_close |-> FALSE, numeric |-> TRUE, close |-> << >>]

\* a frame without a 'close' column
NoClose ==
    [present |-> TRUE, has_close |-> FALSE, numeric |-> TRUE, close |-> << >>]

\* a frame with a 'close' column and no rows
Empty ==
    [present |-> TRUE, has_close |-> TRUE, numeric |-> TRUE, close |-> << >>]

\* a frame whose 'close' column holds values that are not numbers, one per bar
Malformed(s) ==
    [present |-> TRUE, has_close |-> TRUE, numeric |-> FALSE, close |-> s]

\* a frame whose 'close' column is the closing-price history s
Frame(s) ==
    [present |-> TRUE, has_close |-> TRUE, numeric |-> TRUE, close |-> s]

Kinds ==
    {"missing", "noclose", "empty", "malformed", "frame"}

BarData(kind, s) ==
    CASE kind = "missing" -> Missing
      [] kind = "noclose" -> NoClose
      [] kind = "empty" -> Empty
      [] kind = "malformed" -> Malformed(s)
      [] OTHER -> Frame(s)

----------------------------------------------------------------------------
(* on_bar *)

RECURSIVE Sum(_, _, _)
\* close[lo] + ... + close[hi]
Sum(close, lo, hi) ==
    IF lo > hi THEN 0 ELSE close[hi] + Sum(close, lo, hi - 1)

\* close.rolling(window=window).mean() with min_periods=1: a value from the first
\* row on, the mean of the rows the window holds so far
rolling_mean_min_periods_1(close, window) ==
    [i \in 1..Len(close) |->
        IF i < window THEN Mean(Sum(close, 1, i), i)
        ELSE Mean(Sum(close, i - window + 1, i), window)]

\* close.rolling(window=window + 1).mean(): the window one row too long
rolling_mean_window_plus_1(close, window) ==
    [i \in 1..Len(close) |->
        IF i < window + 1 THEN NaN ELSE Mean(Sum(close, i - window, i), window + 1)]

\* close.rolling(window=window).mean(): NaN until the window is full, then the
\* mean of the last `window` rows
rolling_mean(close, window) ==
    [i \in 1..Len(close) |->
        IF i < window THEN NaN ELSE Mean(Sum(close, i - window + 1, i), window)]

\* series.iloc[-k]
iloc(s, k) ==
    s[Len(s) - k + 1]

\* bars is None or 'close' not in bars or bars.empty
no_data(bars) ==
    \/ ~bars.present
    \/ ~bars.has_close
    \/ Len(bars.close) = 0

\* the except clause re-raises
except_reraise ==
    [decision |-> NoDecision, raised |-> TRUE]

\* except Exception as e: return
except_clause ==
    [decision |-> NoDecision, raised |-> FALSE]

\* a plain return
Return ==
    [decision |-> NoDecision, raised |-> FALSE]

\* position.quantity if position else 0
quantity_of(pos) ==
    IF pos.exists THEN pos.quantity ELSE 0

\* the buy condition with the previous bar compared strictly
buy_signal_strict_prev(fast_prev, fast_curr, slow_prev, slow_curr) ==
    Lt(fast_prev, slow_prev) /\ Lt(slow_curr, fast_curr)

\* the buy condition with the current bar compared non-strictly
buy_signal_nonstrict_curr(fast_prev, fast_curr, slow_prev, slow_curr) ==
    Le(fast_prev, slow_prev) /\ Le(slow_curr, fast_curr)

\* fast_ma_prev <= slow_ma_prev and fast_ma_curr > slow_ma_curr
buy_signal(fast_prev, fast_curr, slow_prev, slow_curr) ==
    Le(fast_prev, slow_prev) /\ Lt(slow_curr, fast_curr)

\* the sell condition with the previous bar compared strictly
sell_signal_strict_prev(fast_prev, fast_curr, slow_prev, slow_curr) ==
    Lt(slow_prev, fast_prev) /\ Lt(fast_curr, slow_curr)

\* fast_ma_prev >= slow_ma_prev and fast_ma_curr < slow_ma_curr
sell_signal(fast_prev, fast_curr, slow_prev, slow_curr) ==
    Le(slow_prev, fast_prev) /\ Lt(fast_curr, slow_curr)

\* the guard of the buy branch dropped
may_buy_always(current_quantity) ==
    TRUE

\* if current_quantity <= 0
may_buy(current_quantity) ==
    current_quantity <= 0

\* the guard of the sell branch with >= for >
may_sell_nonnegative(current_quantity) ==
    current_quantity >= 0

\* if current_quantity > 0
may_sell(current_quantity) ==
    current_quantity > 0

\* the trading logic, once the four moving-average values are known
trading_logic(params, fast_prev, fast_curr, slow_prev, slow_curr, current_quantity) ==
    IF buy_signal(fast_prev, fast_curr, slow_prev, slow_curr)
    THEN IF may_buy(current_quantity)
         THEN Buy(params.symbol, params.trade_size)
         ELSE NoDecision
    ELSE IF sell_signal(fast_prev, fast_curr, slow_prev, slow_curr)
    THEN IF may_sell(current_quantity)
         THEN Sell(params.symbol, params.trade_size)
         ELSE NoDecision
    ELSE NoDecision

\* on_bar(context, bar_dict), with pos what context.get_position(symbol) returns:
\* the order it places, and whether it ends with an exception
on_bar(params, bars, pos) ==
    IF no_data(bars) THEN Return
    ELSE IF Len(bars.close) < params.slow_period THEN Return
    ELSE IF ~bars.numeric THEN except_clause
    ELSE
        LET fast_ma_series == rolling_mean(bars.close, params.fast_period)
            slow_ma_series == rolling_mean(bars.close, params.slow_period)
        IN  IF \/ Len(fast_ma_series) < 2
               \/ Len(slow_ma_series) < 2
               \/ isna(iloc(fast_ma_series, 1))
               \/ isna(iloc(fast_ma_series, 2))
               \/ isna(iloc(slow_ma_series, 1))
               \/ isna(iloc(slow_ma_series, 2))
            THEN Return
            ELSE [decision |->
                     trading_logic(params,
                                   iloc(fast_ma_series, 2), iloc(fast_ma_series, 1),
                                   iloc(slow_ma_series, 2), iloc(slow_ma_series, 1),
                                   quantity_of(pos)),
                  raised |-> FALSE]

----------------------------------------------------------------------------
(* The host *)

\* the host fills an order in full
filled(pos, order) ==
    CASE order.action = "BUY" -> Holding(quantity_of(pos) + order.quantity)
      [] order.action = "SELL" -> Holding(quantity_of(pos) - order.quantity)
      [] OTHER -> pos

\* one call of on_bar, recorded with its outcome
Call(params, bars, pos, out) ==
    [set |-> TRUE, parameters |-> params, bars |-> bars, position |-> pos,
     decision |-> out.decision, raised |-> out.raised]

NoCall ==
    [set |-> FALSE, parameters |-> [symbol |-> "", fast_period |-> 0,
                                    slow_period |-> 0, trade_size |-> 0],
     bars |-> Missing, position |-> NoPosition,
     decision |-> NoDecision, raised |-> FALSE]

\* on_bar that skips the bar following one it could not evaluate
HandleSkipAfterFailure(bars) ==
    LET out == IF no_data(bar_dict) \/ ~bar_dict.numeric
               THEN Return
               ELSE on_bar(parameters, bars, position)
    IN  /\ bar_dict' = bars
        /\ seen_position' = position
        /\ decision' = out.decision
        /\ raised' = out.raised
        /\ position' = filled(position, out.decision)
        /\ log' = IF out.decision.action = "NONE" THEN log
                  ELSE Append(log, [bar |-> Len(bars.close),
                                    action |-> out.decision.action])
        /\ memo' = memo
        /\ UNCHANGED << parameters, configured, initial >>

\* the host calls on_bar(context, bar_dict) and fills the order it places
Handle(bars) ==
    LET out == on_bar(parameters, bars, position)
    IN  /\ bar_dict' = bars
        /\ seen_position' = position
        /\ decision' = out.decision
        /\ raised' = out.raised
        /\ position' = filled(position, out.decision)
        /\ log' = IF out.decision.action = "NONE" THEN log
                  ELSE Append(log, [bar |-> Len(bars.close),
                                    action |-> out.decision.action])
        /\ memo' = memo
        /\ UNCHANGED << parameters, configured, initial >>

\* initialize(): the parameters, here any periods up to MaxPeriod
Configurations ==
    [symbol : {Symbol}, fast_period : 1..MaxPeriod, slow_period : 1..MaxPeriod,
     trade_size : {TradeSize}]

Init ==
    /\ parameters \in Configurations
    /\ configured = parameters
    /\ series = << >>
    /\ position \in StartPositions
    /\ initial = position
    /\ seen_position = position
    /\ bar_dict = Missing
    /\ decision = NoDecision
    /\ raised = FALSE
    /\ streamed = TRUE
    /\ log = << >>
    /\ memo = NoCall

\* a new bar, one of at most L, closes at a price of P; the host appends its close and calls on_bar
\* with the history
NewBar(P, L) ==
    /\ Len(series) < L
    /\ \E p \in P :
          /\ series' = Append(series, p)
          /\ streamed' = streamed
          /\ Handle(Frame(series'))

\* a new bar closes, and what the host hands to on_bar for it is unusable
BadBar(P, L) ==
    /\ Len(series) < L
    /\ \E p \in P, kind \in Kinds \ {"frame"} :
          /\ series' = Append(series, p)
          /\ streamed' = FALSE
          /\ Handle(BarData(kind, series'))

\* the host calls on_bar again with the history it has, no new bar having closed
Redeliver ==
    /\ Len(series) > 0
    /\ series' = series
    /\ streamed' = FALSE
    /\ Handle(Frame(series))

\* the last call is remembered, to be compared with a later one
Remember ==
    /\ Len(series) > 0
    /\ memo' = Call(parameters, bar_dict, seen_position,
                     [decision |-> decision, raised |-> raised])
    /\ UNCHANGED << parameters, series, position, bar_dict, seen_position,
                    decision, raised, configured, initial, streamed, log >>

Next ==
    \/ NewBar(Prices, MaxLen)
    \/ BadBar(Prices, MaxLen)
    \/ Redeliver

Spec ==
    Init /\ [][Next]_vars

\* the same host, with one earlier call kept for comparison
NextRemembering ==
    \/ NewBar(Prices, MaxReplayLen)
    \/ BadBar(Prices, MaxReplayLen)
    \/ Redeliver
    \/ Remember

SpecRemembering ==
    Init /\ [][NextRemembering]_vars

\* the strategy configured as in the scenario of the specification: fast_period 2,
\* slow_period 3, prices among 10, 12 and 14
ScenarioPrices ==
    {10, 12, 14}

InitScenario ==
    /\ Init
    /\ parameters.fast_period = 2
    /\ parameters.slow_period = 3

NextScenario ==
    \/ NewBar(ScenarioPrices, MaxLen)
    \/ BadBar(ScenarioPrices, MaxLen)
    \/ Redeliver

SpecScenario ==
    InitScenario /\ [][NextScenario]_vars

----------------------------------------------------------------------------
(* The moving averages and the crossings of a closing-price history, as the *)
(* specification defines them                                               *)

Max(a, b) ==
    IF a >= b THEN a ELSE b

\* the arithmetic mean of the last w prices ending at bar i (i >= w)
SMA(s, w, i) ==
    Mean(Sum(s, i - w + 1, i), w)

\* both averages have a value on bar i - 1 and on bar i
BothDefinedAt(params, i) ==
    i - 1 >= Max(params.fast_period, params.slow_period)

\* on bar i the fast average moves from <= the slow average to > it
CrossesUpAt(params, s, i) ==
    /\ BothDefinedAt(params, i)
    /\ Le(SMA(s, params.fast_period, i - 1), SMA(s, params.slow_period, i - 1))
    /\ Lt(SMA(s, params.slow_period, i), SMA(s, params.fast_period, i))

\* on bar i the fast average moves from >= the slow average to < it
CrossesDownAt(params, s, i) ==
    /\ BothDefinedAt(params, i)
    /\ Le(SMA(s, params.slow_period, i - 1), SMA(s, params.fast_period, i - 1))
    /\ Lt(SMA(s, params.fast_period, i), SMA(s, params.slow_period, i))

UpCrosses(params, s) ==
    {i \in 1..Len(s) : CrossesUpAt(params, s, i)}

DownCrosses(params, s) ==
    {i \in 1..Len(s) : CrossesDownAt(params, s, i)}

\* the last call was handed the well-formed closing-price history bar_dict.close
WellFormed ==
    bar_dict.present /\ bar_dict.has_close /\ bar_dict.numeric

\* the last call was handed something on_bar cannot evaluate
Unusable ==
    \/ bar_dict = Missing
    \/ bar_dict = NoClose
    \/ bar_dict = Empty
    \/ (Len(series) > 0 /\ bar_dict = Malformed(series))

\* N = max(fast_period, slow_period)
N ==
    Max(parameters.fast_period, parameters.slow_period)

\* the last n elements of s
LastN(s, n) ==
    SubSeq(s, Len(s) - n + 1, Len(s))

\* the decision rule of the specification on a history that passes the guards
ReferenceRule(params, s, q) ==
    LET n == Len(s)
        fast_prev == SMA(s, params.fast_period, n - 1)
        fast_curr == SMA(s, params.fast_period, n)
        slow_prev == SMA(s, params.slow_period, n - 1)
        slow_curr == SMA(s, params.slow_period, n)
    IN  IF Le(fast_prev, slow_prev) /\ Lt(slow_curr, fast_curr) /\ q <= 0
        THEN Buy(params.symbol, params.trade_size)
        ELSE IF Le(slow_prev, fast_prev) /\ Lt(fast_curr, slow_curr) /\ q > 0
        THEN Sell(params.symbol, params.trade_size)
        ELSE NoDecision

----------------------------------------------------------------------------
(* The claims *)

\* C1: a call handed a price history no longer than max(fast_period,
\* slow_period), so that one of the averages has fewer than two values, places
\* no order, whatever the position.
C1_InsufficientHistory ==
    (WellFormed /\ Len(bar_dict.close) <= N) => decision = NoDecision

\* C1 witness: a history exactly slow_period = max long (it passes the length
\* guard) whose last close rose, evaluated while flat, and no order was placed.
C1_Witness ==
    /\ WellFormed
    /\ Len(bar_dict.close) = N
    /\ Len(bar_dict.close) = parameters.slow_period
    /\ parameters.fast_period < parameters.slow_period
    /\ bar_dict.close[N] > bar_dict.close[N - 1]
    /\ quantity_of(seen_position) = 0
    /\ decision = NoDecision

\* C2: in a run that starts flat and delivers one new well-formed bar per call,
\* with every order filled in full, a history with exactly one upward cross and
\* exactly one later downward cross has produced exactly one BUY, on the bar of
\* the upward cross, then exactly one SELL, on the bar of the downward cross.
C2_ExactlyOncePerCross ==
    LET up == UpCrosses(parameters, series)
        down == DownCrosses(parameters, series)
    IN  ( /\ streamed
          /\ quantity_of(initial) = 0
          /\ Cardinality(up) = 1
          /\ Cardinality(down) = 1
          /\ \E u \in up, d \in down : u < d )
        => \E u \in up, d \in down :
              log = << [bar |-> u, action |-> "BUY"], [bar |-> d, action |-> "SELL"] >>

\* C2 witness: such a run, whose downward cross starts from equal averages.
C2_Witness ==
    LET up == UpCrosses(parameters, series)
        down == DownCrosses(parameters, series)
    IN  /\ streamed
        /\ quantity_of(initial) = 0
        /\ Cardinality(up) = 1
        /\ Cardinality(down) = 1
        /\ \E u \in up, d \in down :
              /\ u < d
              /\ d = Len(series)
              /\ Le(SMA(series, parameters.fast_period, d - 1),
                    SMA(series, parameters.slow_period, d - 1))
        /\ Len(log) = 2
        /\ decision.action = "SELL"

\* C3: a BUY is placed only when the quantity read is <= 0 and a SELL only when
\* it is > 0; an upward cross seen while long and a downward cross seen while
\* not long place no order.
C3_PositionGuard ==
    /\ decision.action = "BUY" => quantity_of(seen_position) <= 0
    /\ decision.action = "SELL" => quantity_of(seen_position) > 0
    /\ ( /\ WellFormed
         /\ CrossesUpAt(parameters, bar_dict.close, Len(bar_dict.close))
         /\ quantity_of(seen_position) > 0 ) => decision = NoDecision
    /\ ( /\ WellFormed
         /\ CrossesDownAt(parameters, bar_dict.close, Len(bar_dict.close))
         /\ quantity_of(seen_position) <= 0 ) => decision = NoDecision

\* C3 witness: an upward cross on the last bar, seen while long, and no order.
C3_Witness ==
    /\ WellFormed
    /\ CrossesUpAt(parameters, bar_dict.close, Len(bar_dict.close))
    /\ quantity_of(seen_position) > 0
    /\ decision = NoDecision

\* C4: on a history that passes the guards the order placed is exactly the one
\* the decision rule of the specification gives for the quantity read (an
\* absent position reading as 0): BUY(symbol, trade_size), SELL(symbol,
\* trade_size) or none.
C4_DecisionRule ==
    (WellFormed /\ Len(bar_dict.close) > N)
    => decision = ReferenceRule(configured, bar_dict.close, quantity_of(seen_position))

\* C4 witness: the averages equal on the previous bar, the fast one above on the
\* current bar, no position held, and a BUY of trade_size placed.
C4_Witness ==
    /\ WellFormed
    /\ Len(bar_dict.close) > N
    /\ LET n == Len(bar_dict.close)
       IN  /\ Le(SMA(bar_dict.close, parameters.fast_period, n - 1),
                 SMA(bar_dict.close, parameters.slow_period, n - 1))
           /\ Le(SMA(bar_dict.close, parameters.slow_period, n - 1),
                 SMA(bar_dict.close, parameters.fast_period, n - 1))
    /\ ~seen_position.exists
    /\ decision = Buy(Symbol, TradeSize)

C6_FlatSeries ==
    ( /\ WellFormed
      /\ \A i \in 1..Len(bar_dict.close) : bar_dict.close[i] = bar_dict.close[1] )
    => decision = NoDecision

\* C6 witness: a constant history long enough for both averages to have two
\* values, evaluated while flat.
C6_Witness ==
    /\ WellFormed
    /\ Len(bar_dict.close) > N
    /\ \A i \in 1..Len(bar_dict.close) : bar_dict.close[i] = bar_dict.close[1]
    /\ quantity_of(seen_position) <= 0
    /\ decision = NoDecision

\* the call of scenario 1: fast_period 2, slow_period 3, quantity 0
Scenario1 ==
    /\ parameters.fast_period = 2
    /\ parameters.slow_period = 3
    /\ WellFormed
    /\ quantity_of(seen_position) = 0

\* C7 as stated: evaluating [10, 10, 10, 12, 14] with fast_period 2,
\* slow_period 3 and quantity 0 places a BUY.
C7_Original ==
    (Scenario1 /\ bar_dict.close = << 10, 10, 10, 12, 14 >>)
    => decision.action = "BUY"

\* C7 amended: with fast_period 2, slow_period 3 and quantity 0 the BUY is
\* placed when the history is [10, 10, 10, 12], the bar on which the fast average
\* first exceeds the slow one; evaluating [10, 10, 10, 12, 14] places no order,
\* the fast average being above the slow one on the bar before already.  A run
\* from flat over the five bars places that one BUY, on the fourth bar.
C7_Amended ==
    /\ (Scenario1 /\ bar_dict.close = << 10, 10, 10, 12 >>)
       => decision = Buy(Symbol, TradeSize)
    /\ (Scenario1 /\ bar_dict.close = << 10, 10, 10, 12, 14 >>)
       => decision = NoDecision
    /\ ( /\ parameters.fast_period = 2
         /\ parameters.slow_period = 3
         /\ streamed
         /\ quantity_of(initial) = 0
         /\ series = << 10, 10, 10, 12, 14 >> )
       => log = << [bar |-> 4, action |-> "BUY"] >>

\* C7 witness: the five bars streamed from flat, the BUY placed on the fourth.
C7_Witness ==
    /\ parameters.fast_period = 2
    /\ parameters.slow_period = 3
    /\ streamed
    /\ quantity_of(initial) = 0
    /\ bar_dict.close = << 10, 10, 10, 12, 14 >>
    /\ log = << [bar |-> 4, action |-> "BUY"] >>
    /\ decision = NoDecision

\* C8 as stated: a history of at least N = max(fast_period, slow_period) prices
\* gives the decision its last N prices alone give.
C8_Original ==
    (WellFormed /\ Len(bar_dict.close) >= N)
    => decision = on_bar(parameters, Frame(LastN(bar_dict.close, N)),
                         seen_position).decision

\* C8 amended: the detector needs the most recent N + 1 closing prices: a
\* history of at least N + 1 prices gives the decision its last N + 1 prices
\* alone give (its last N prices alone give no decision).
C8_Amended ==
    (WellFormed /\ Len(bar_dict.close) >= N + 1)
    => /\ decision = on_bar(parameters, Frame(LastN(bar_dict.close, N + 1)),
                            seen_position).decision
       /\ on_bar(parameters, Frame(LastN(bar_dict.close, N)),
                 seen_position).decision = NoDecision

\* C8 witness: a history longer than N + 1 on which an order was placed.
C8_Witness ==
    /\ WellFormed
    /\ Len(bar_dict.close) > N + 1
    /\ decision.action /= "NONE"

\* C9: a call handed no data for the symbol, a frame without a close column,
\* an empty frame, or data on which the rolling means cannot be computed ends
\* normally, places no order and leaves the position and the parameters as
\* they were, so that the next call sees what it would have seen without it.
C9_FailuresAbstain ==
    Unusable => /\ decision = NoDecision
                /\ ~raised
                /\ position = seen_position
                /\ parameters = configured

\* C9 witness: non-numeric closes, long enough to reach the computation of the
\* rolling means, on a bar where well-formed data would have placed an order.
C9_Witness ==
    /\ Len(series) > N
    /\ bar_dict = Malformed(series)
    /\ on_bar(parameters, Frame(series), seen_position).decision.action /= "NONE"
    /\ decision = NoDecision
    /\ ~raised

\* C10 as stated: a SELL placed while the quantity read is positive, filled in
\* full, leaves the position flat, never short.
C10_SellFlattens ==
    (decision.action = "SELL" /\ quantity_of(seen_position) > 0)
    => quantity_of(position) = 0

====
